---------------------------- MODULE Spec2Model ----------------------------
(***************************************************************************)
(* Model of the movie-recommendation streaming relay of server.js: the     *)
(* POST /api/movie-recommendations handler, its send helper, its heartbeat *)
(* interval and the upstream generator runMovieAgent.                      *)
(*                                                                         *)
(* The handler is an async function on a single-threaded event loop, so    *)
(* every action below is one run-to-completion segment between two awaits  *)
(* (await import, await of the next upstream message) and the interval     *)
(* callback can run only while the handler is suspended at an await.       *)
(***************************************************************************)
EXTENDS Integers, Sequences, FiniteSets, TLC

(***************************************************************************)
(* Bounds of the model.                                                    *)
(***************************************************************************)
\* upstream messages consumed by one request
MaxMsgs == 3
\* heartbeat frames delivered to a connected client in one request
MaxTicks == 2
\* whitespace characters on each side of a sample text block
MaxPad == 2
\* length of the favoriteMovies value of a sample request
MaxFav == 2

(***************************************************************************)
(* JavaScript values.  A scalar is a record [t, s]: t is the type tag and  *)
(* s the string content (the decimal digits for a number).  The text of a  *)
(* content block is a record [t, cs] whose cs is the sequence of its       *)
(* characters, because trim() looks at them.                               *)
(***************************************************************************)
Undef == [t |-> "undefined", s |-> ""]
Str(s) == [t |-> "string", s |-> s]
Num(s) == [t |-> "number", s |-> s]

\* JavaScript truthiness of a scalar
Truthy(v) ==
  \/ v.t = "string" /\ v.s # ""
  \/ v.t = "number" /\ v.s # "0"
  \/ v.t = "object"

\* a || b
OrElseFirst(a, b) == a
OrElse(a, b) == IF Truthy(a) THEN a ELSE b

\* String.prototype.trim: the white space of both ends is removed
WhiteSpace == {" ", "\t", "\n", "\r"}

RECURSIVE TrimStart(_)
TrimStart(cs) ==
  IF cs = <<>> \/ Head(cs) \notin WhiteSpace THEN cs ELSE TrimStart(Tail(cs))

RECURSIVE TrimEnd(_)
TrimEnd(cs) ==
  IF cs = <<>> \/ cs[Len(cs)] \notin WhiteSpace
  THEN cs
  ELSE TrimEnd(SubSeq(cs, 1, Len(cs) - 1))

Trim(cs) == TrimEnd(TrimStart(cs))

\* Array.prototype.join('; ') of an array of strings
RECURSIVE JoinComma(_)
JoinComma(items) ==
  IF items = <<>> THEN ""
  ELSE IF Len(items) = 1 THEN items[1]
  ELSE items[1] \o ", " \o JoinComma(Tail(items))

RECURSIVE Join(_)
Join(items) ==
  IF items = <<>> THEN ""
  ELSE IF Len(items) = 1 THEN items[1]
  ELSE items[1] \o "; " \o Join(Tail(items))

(***************************************************************************)
(* Client events: the objects handed to send.  Every event is a record of  *)
(* the same shape; a field the object literal does not set, or sets to     *)
(* undefined (JSON.stringify leaves such a key out), is Undef / <<>>.      *)
(***************************************************************************)
Event(type, p, q, cs) == [type |-> type, p |-> p, q |-> q, cs |-> cs]

StartEvent ==
  Event("start", Str("Starting deep research into your movie taste..."), Undef, <<>>)
DoneEvent == Event("done", Undef, Undef, <<>>)
ResultEvent(content) == Event("result", content, Undef, <<>>)
ErrorEvent(message) == Event("error", Str(message), Undef, <<>>)
SearchEvent(query) == Event("search", query, Undef, <<>>)
FetchEvent(url) == Event("fetch", url, Undef, <<>>)
ThinkingEvent(text) == Event("thinking", Undef, Undef, text)
SummaryEvent(content) == Event("summary", content, Undef, <<>>)
ToolProgressEvent(toolName, elapsed) == Event("tool_progress", toolName, elapsed, <<>>)

\* the fixed texts of the handler
ResearchError == "Research encountered an error"
UnexpectedError == "An unexpected error occurred"

\* the length below which a text block is sent as a thinking event
ThinkingLimit == 500

(***************************************************************************)
(* Upstream messages and content blocks, as the loop body reads them.      *)
(*   message: isObj (msg && typeof msg === 'object'), type, subtype,       *)
(*     result, errors [t, items], content [t, blocks] (msg.message?.content*)
(*     ), summary, tool_name, elapsed                                      *)
(*   block: isObj, type, name, input [t, query, q, url], text [t, cs]      *)
(***************************************************************************)
NoInput == [t |-> "undefined", query |-> Undef, q |-> Undef, url |-> Undef]
Input(query, q, url) == [t |-> "object", query |-> query, q |-> q, url |-> url]
NoText == [t |-> "undefined", cs |-> <<>>]
Text(cs) == [t |-> "string", cs |-> cs]

Block(isObj, type, name, input, text) ==
  [isObj |-> isObj, type |-> type, name |-> name, input |-> input, text |-> text]
ToolUse(name, input) == Block(TRUE, "tool_use", name, input, NoText)
TextBlock(text) == Block(TRUE, "text", "", NoInput, text)

NoErrors == [t |-> "undefined", items |-> <<>>]
Errors(items) == [t |-> "array", items |-> items]
NoContent == [t |-> "undefined", blocks |-> <<>>]
Content(blocks) == [t |-> "array", blocks |-> blocks]

Msg(isObj, type, subtype, result, errors, content, summary, tool_name, elapsed) ==
  [isObj |-> isObj, type |-> type, subtype |-> subtype, result |-> result,
   errors |-> errors, content |-> content, summary |-> summary,
   tool_name |-> tool_name, elapsed |-> elapsed]
ResultMsg(subtype, result, errors) ==
  Msg(TRUE, "result", subtype, result, errors, NoContent, Undef, Undef, Undef)
AssistantMsg(content) ==
  Msg(TRUE, "assistant", "", Undef, NoErrors, content, Undef, Undef, Undef)
SummaryMsg(summary) ==
  Msg(TRUE, "tool_use_summary", "", Undef, NoErrors, NoContent, summary, Undef, Undef)
ProgressMsg(tool_name, elapsed) ==
  Msg(TRUE, "tool_progress", "", Undef, NoErrors, NoContent, Undef, tool_name, elapsed)
OtherMsg(isObj, type) ==
  Msg(isObj, type, "", Undef, NoErrors, NoContent, Undef, Undef, Undef)

(***************************************************************************)
(* The loop body as a function of one message: the events it hands to send *)
(* in order, whether it threw, and the message of what it threw.           *)
(***************************************************************************)
Outcome(events, raised, message) ==
  [events |-> events, raised |-> raised, message |-> message]
Emits(events) == Outcome(events, FALSE, "")
Throws(events, message) == Outcome(events, TRUE, message)

\* text.length > 0 && text.length < 500
ShortThoughtInclusive(len) == len > 0 /\ len <= ThinkingLimit
ShortThought(len) == len > 0 /\ len < ThinkingLimit

\* one content block
ClassifyBlock(block) ==
  IF ~block.isObj THEN Emits(<<>>)
  ELSE IF block.type = "tool_use" THEN
    IF block.name = "WebSearch"
    THEN Emits(<<SearchEvent(OrElse(block.input.query, OrElse(block.input.q, Str(""))))>>)
    ELSE IF block.name = "WebFetch"
    THEN Emits(<<FetchEvent(OrElse(block.input.url, Str("")))>>)
    ELSE Emits(<<>>)
  ELSE IF block.type = "text" THEN
    \* block.text?.trim(): undefined and null short-circuit, a string is
    \* trimmed, any other value has no trim method
    IF block.text.t \in {"undefined", "null"} THEN Emits(<<>>)
    ELSE IF block.text.t # "string"
    THEN Throws(<<>>, "block.text?.trim is not a function")
    ELSE IF Trim(block.text.cs) = <<>> THEN Emits(<<>>)
    ELSE IF ShortThought(Len(Trim(block.text.cs)))
    THEN Emits(<<ThinkingEvent(Trim(block.text.cs))>>)
    ELSE Emits(<<>>)
  ELSE Emits(<<>>)

\* for (const block of msg.message.content): stops at the first throw
RECURSIVE ClassifyBlocksUntilSilent(_)
ClassifyBlocksUntilSilent(blocks) ==
  IF blocks = <<>> THEN Emits(<<>>)
  ELSE LET first == ClassifyBlock(Head(blocks))
       IN  IF first.raised \/ first.events = <<>> THEN first
           ELSE LET rest == ClassifyBlocksUntilSilent(Tail(blocks))
                IN  Outcome(first.events \o rest.events, rest.raised, rest.message)

RECURSIVE ClassifyBlocksReversed(_)
ClassifyBlocksReversed(blocks) ==
  IF blocks = <<>> THEN Emits(<<>>)
  ELSE LET first == ClassifyBlock(Head(blocks))
       IN  IF first.raised THEN first
           ELSE LET rest == ClassifyBlocksReversed(Tail(blocks))
                IN  Outcome(rest.events \o first.events, rest.raised, rest.message)

RECURSIVE ClassifyBlocks(_)
ClassifyBlocks(blocks) ==
  IF blocks = <<>> THEN Emits(<<>>)
  ELSE LET first == ClassifyBlock(Head(blocks))
       IN  IF first.raised THEN first
           ELSE LET rest == ClassifyBlocks(Tail(blocks))
                IN  Outcome(first.events \o rest.events, rest.raised, rest.message)

\* msg.errors?.join('; ') || 'Research encountered an error'
ErrMsg(errors) ==
  IF errors.t \in {"undefined", "null"} THEN Emits(<<ErrorEvent(ResearchError)>>)
  ELSE IF errors.t # "array" THEN Throws(<<>>, "msg.errors?.join is not a function")
  ELSE IF Join(errors.items) = "" THEN Emits(<<ErrorEvent(ResearchError)>>)
  ELSE Emits(<<ErrorEvent(Join(errors.items))>>)

\* msg.message?.content is truthy ("number" stands for a non-zero number; the
\* blocks of a string are its characters, none of them an object)
ContentTruthy(content) ==
  content.t \in {"array", "object", "number"} \/ (content.t = "string" /\ content.blocks # <<>>)

\* the body of the for await loop
Classify(msg) ==
  IF ~msg.isObj THEN Emits(<<>>)
  ELSE IF msg.type = "result" THEN
    IF msg.subtype = "success" THEN Emits(<<ResultEvent(msg.result)>>)
    ELSE ErrMsg(msg.errors)
  ELSE IF msg.type = "assistant" /\ ContentTruthy(msg.content) THEN
    \* an array is iterated block by block, a string character by character
    \* (its blocks are non-objects); a number or a plain object is not iterable
    IF msg.content.t \in {"array", "string"} THEN ClassifyBlocks(msg.content.blocks)
    ELSE Throws(<<>>, "msg.message.content is not iterable")
  ELSE IF msg.type = "tool_use_summary" /\ Truthy(msg.summary)
  THEN Emits(<<SummaryEvent(msg.summary)>>)
  ELSE IF msg.type = "tool_progress" /\ Truthy(msg.tool_name)
  THEN Emits(<<ToolProgressEvent(msg.tool_name, msg.elapsed)>>)
  ELSE Emits(<<>>)

\* whether the message is a final result (msgType === 'result')
IsFinal(msg) == msg.isObj /\ msg.type = "result"


(***************************************************************************)
(* Sample inputs.                                                          *)
(***************************************************************************)
\* the request: favoriteMovies (whether it is an array, its length) and
\* process.env.ANTHROPIC_API_KEY
Requests ==
  [isArray : BOOLEAN, len : 0..MaxFav, key : {"undefined", "", "sk-key"}]
NoRequest == [isArray |-> FALSE, len |-> 0, key |-> "undefined"]

\* the messages the upstream session yields to the relay
RelayMsgs ==
  << ResultMsg("success", Str("Try Memento and Primer."), NoErrors),
     ResultMsg("error_during_execution", Undef, Errors(<<"timeout", "rate limited">>)),
     AssistantMsg(Content(<<ToolUse("WebSearch", Input(Str("Inception reviews"), Undef, Undef)),
                            TextBlock(Text(<<" ", "o", "k", "\n">>))>>)),
     AssistantMsg(Content(<<ToolUse("WebFetch", Input(Undef, Undef, Str("https://rogerebert.com"))),
                            TextBlock([t |-> "number", cs |-> <<>>])>>)),
     OtherMsg(TRUE, "system") >>

\* the messages of the errors thrown by the upstream session or the import
RaisedMessages == {"", "session aborted"}
ImportError == "Cannot find package '@anthropic-ai/claude-agent-sdk'"

(***************************************************************************)
(* State.                                                                  *)
(***************************************************************************)
VARIABLES
  pc,            \* where the handler is: "idle", "rejected" (returned a 400 or
                 \* 500), "import" (awaiting the import), "loop" (awaiting the
                 \* next upstream message), "done" (the finally block has run)
  req,           \* the request being handled
  status,        \* the HTTP status sent, 0 while none is
  headersSent,   \* res.flushHeaders() was called
  out,           \* the frames written to the connection, in order
  connected,     \* the client is still connected
  writeMode,     \* what res.write does on a closed connection on this
                 \* platform: "throws" or "drops" (returns without writing)
  failedSends,   \* the res.write calls of send that wrote nothing
  timerActive,   \* the heartbeat interval is active
  timersCreated, \* the setInterval calls
  clearCalls,    \* the clearInterval(heartbeat) calls
  endCalls,      \* the res.end() calls
  sessions,      \* the runMovieAgent calls
  hist,          \* the indexes in RelayMsgs of the messages consumed, in order
  raisedBy,      \* what threw into the catch block: "none", "import",
                 \* "upstream" or "classifier"
  raisedMessage, \* err.message of what was caught
  cphase,        \* classifier runs: "off", "input" or "output"
  cin,           \* classifier runs: the message given to the loop body
  cout,          \* classifier runs: what the loop body did with it
  rs,            \* concurrent requests: per request, the handler's locals
                 \* [pc, out, connected, heartbeat, ended, consumed]
  timers,        \* concurrent requests: the handles of the active intervals
  timerRes       \* concurrent requests: per interval handle, the request
                 \* whose res its callback writes to

relayVars ==
  <<pc, req, status, headersSent, out, connected, writeMode, failedSends,
    timerActive, timersCreated, clearCalls, endCalls, sessions, hist,
    raisedBy, raisedMessage>>
classifierVars == <<cphase, cin, cout>>
pairVars == <<rs, timers, timerRes>>
vars == <<relayVars, classifierVars, pairVars>>

\* frames of the connection
DataFrame(ev) == [kind |-> "data", ev |-> ev]
HeartbeatAsEvent == [kind |-> "data", ev |-> Event("heartbeat", Undef, Undef, <<>>)]
HeartbeatFrame == [kind |-> "heartbeat", ev |-> Event("", Undef, Undef, <<>>)]

\* the client events of a frame sequence: its data frames, in order
RECURSIVE Events(_)
Events(frames) ==
  IF frames = <<>> THEN <<>>
  ELSE IF Head(frames).kind = "data"
       THEN <<Head(frames).ev>> \o Events(Tail(frames))
       ELSE Events(Tail(frames))

Heartbeats(frames) == Len(frames) - Len(Events(frames))

\* res.write reaches the client
Writable == connected /\ endCalls = 0

RelayInit ==
  /\ pc = "idle"
  /\ req = NoRequest
  /\ status = 0
  /\ headersSent = FALSE
  /\ out = <<>>
  /\ connected = TRUE
  /\ writeMode \in {"throws", "drops"}
  /\ failedSends = 0
  /\ timerActive = FALSE
  /\ timersCreated = 0
  /\ clearCalls = 0
  /\ endCalls = 0
  /\ sessions = 0
  /\ hist = <<>>
  /\ raisedBy = "none"
  /\ raisedMessage = ""

\* concurrent requests: two calls of the handler
Reqs == {1, 2}
\* upstream messages consumed by each of the concurrent requests
MaxPairMsgs == 1

NoRequests ==
  [i \in Reqs |-> [pc |-> "idle", out |-> <<>>, connected |-> TRUE,
                   heartbeat |-> 0, ended |-> 0, consumed |-> 0]]
PairInit ==
  /\ rs = NoRequests
  /\ timers = {}
  /\ timerRes = <<>>

Init ==
  /\ RelayInit
  /\ PairInit
  /\ cphase = "off"
  /\ cin = OtherMsg(FALSE, "")
  /\ cout = Emits(<<>>)

(***************************************************************************)
(* The handler.                                                            *)
(***************************************************************************)
\* Array.isArray(favoriteMovies) && favoriteMovies.length !== 0
ValidFavoritesAnyLength(r) == r.len # 0
ValidFavorites(r) == r.isArray /\ r.len # 0

\* process.env.ANTHROPIC_API_KEY is truthy
HasKey(r) == r.key # "undefined" /\ r.key # ""

\* send, once per event: res.write inside try/catch, a failure is swallowed
Send(events) ==
  IF Writable
  THEN /\ out' = out \o [i \in 1..Len(events) |-> DataFrame(events[i])]
       /\ failedSends' = failedSends
  ELSE /\ out' = out
       /\ failedSends' = failedSends + Len(events)

\* the finally block: clearInterval(heartbeat); res.end()
FinallyKeepsTimer ==
  /\ timerActive' = timerActive
  /\ clearCalls' = clearCalls
  /\ endCalls' = endCalls + 1
  /\ pc' = "done"
Finally ==
  /\ timerActive' = FALSE
  /\ clearCalls' = clearCalls + 1
  /\ endCalls' = endCalls + 1
  /\ pc' = "done"

\* the catch block, after `before` were sent in the try block:
\* send({type: 'error', message: err.message || 'An unexpected error occurred'})
Catch(before, by, message) ==
  /\ Send(before \o <<ErrorEvent(IF message = "" THEN UnexpectedError ELSE message)>>)
  /\ raisedBy' = by
  /\ raisedMessage' = message
  /\ Finally

\* the handler from its entry to `await import`: validation, the SSE headers,
\* setInterval
Request(r) ==
  /\ pc = "idle"
  /\ req' = r
  /\ IF ~ValidFavorites(r)
     THEN /\ status' = 400
          /\ pc' = "rejected"
          /\ UNCHANGED <<headersSent, timerActive, timersCreated>>
     ELSE IF ~HasKey(r)
     THEN /\ status' = 500
          /\ pc' = "rejected"
          /\ UNCHANGED <<headersSent, timerActive, timersCreated>>
     ELSE /\ status' = 200
          /\ headersSent' = TRUE
          /\ timerActive' = TRUE
          /\ timersCreated' = timersCreated + 1
          /\ pc' = "import"
  /\ UNCHANGED <<out, connected, writeMode, failedSends, clearCalls, endCalls,
                 sessions, hist, raisedBy, raisedMessage, classifierVars, pairVars>>

\* the import resolves: send start, call runMovieAgent, await its first message
ImportResolved ==
  /\ pc = "import"
  /\ Send(<<StartEvent>>)
  /\ sessions' = sessions + 1
  /\ pc' = "loop"
  /\ UNCHANGED <<req, status, headersSent, connected, writeMode, timerActive,
                 timersCreated, clearCalls, endCalls, hist, raisedBy,
                 raisedMessage, classifierVars, pairVars>>

\* the import rejects: catch and finally
ImportRejected ==
  /\ pc = "import"
  /\ Catch(<<>>, "import", ImportError)
  /\ UNCHANGED <<req, status, headersSent, connected, writeMode, timersCreated,
                 sessions, hist, classifierVars, pairVars>>

\* the upstream session yields RelayMsgs[i]: one pass of the loop body, then
\* the await of the next message, or catch and finally when the body throws
UpstreamYield(i) ==
  /\ pc = "loop"
  /\ Len(hist) < MaxMsgs
  /\ hist' = Append(hist, i)
  /\ LET o == Classify(RelayMsgs[i])
     IN  IF o.raised
         THEN Catch(o.events, "classifier", o.message)
         ELSE /\ Send(o.events)
              /\ UNCHANGED <<pc, timerActive, clearCalls, endCalls, raisedBy,
                             raisedMessage>>
  /\ UNCHANGED <<req, status, headersSent, connected, writeMode, timersCreated,
                 sessions, classifierVars, pairVars>>

\* the upstream session ends: send done, then finally
UpstreamEndNoDone ==
  /\ pc = "loop"
  /\ Send(<<>>)
  /\ Finally
  /\ UNCHANGED <<req, status, headersSent, connected, writeMode, timersCreated,
                 sessions, hist, raisedBy, raisedMessage, classifierVars, pairVars>>
UpstreamEndWithoutCleanup ==
  /\ pc = "loop"
  /\ Send(<<DoneEvent>>)
  /\ pc' = "done"
  /\ UNCHANGED <<req, status, headersSent, connected, writeMode, timersCreated,
                 timerActive, clearCalls, endCalls, sessions, hist, raisedBy,
                 raisedMessage, classifierVars, pairVars>>
UpstreamEnd ==
  /\ pc = "loop"
  /\ Send(<<DoneEvent>>)
  /\ Finally
  /\ UNCHANGED <<req, status, headersSent, connected, writeMode, timersCreated,
                 sessions, hist, raisedBy, raisedMessage, classifierVars, pairVars>>

\* the upstream session throws e: catch and finally
UpstreamRaise(e) ==
  /\ pc = "loop"
  /\ Catch(<<>>, "upstream", e)
  /\ UNCHANGED <<req, status, headersSent, connected, writeMode, timersCreated,
                 sessions, hist, classifierVars, pairVars>>

\* the interval callback: res.write(': heartbeat'), clearInterval when it throws
Tick ==
  /\ timerActive
  /\ IF Writable
     THEN /\ Heartbeats(out) < MaxTicks
          /\ out' = Append(out, HeartbeatFrame)
          /\ UNCHANGED <<timerActive, clearCalls>>
     ELSE IF writeMode = "throws"
     THEN /\ timerActive' = FALSE
          /\ clearCalls' = clearCalls + 1
          /\ UNCHANGED out
     ELSE UNCHANGED <<out, timerActive, clearCalls>>
  /\ UNCHANGED <<pc, req, status, headersSent, connected, writeMode, failedSends,
                 timersCreated, endCalls, sessions, hist, raisedBy,
                 raisedMessage, classifierVars, pairVars>>

\* the client closes the connection of a streaming request
Disconnect ==
  /\ pc \in {"import", "loop"}
  /\ connected
  /\ connected' = FALSE
  /\ UNCHANGED <<pc, req, status, headersSent, out, writeMode, failedSends,
                 timerActive, timersCreated, clearCalls, endCalls, sessions,
                 hist, raisedBy, raisedMessage, classifierVars, pairVars>>

Next ==
  \/ \E r \in Requests : Request(r)
  \/ ImportResolved
  \/ ImportRejected
  \/ \E i \in 1..Len(RelayMsgs) : UpstreamYield(i)
  \/ UpstreamEnd
  \/ \E e \in RaisedMessages : UpstreamRaise(e)
  \/ Tick
  \/ Disconnect

Spec == Init /\ [][Next]_vars

\* the interval fires for as long as it is active, and the module loader
\* settles the import; nothing makes the upstream session yield or end
SpecLive ==
  /\ Spec
  /\ WF_vars(Tick)
  /\ WF_vars(ImportResolved \/ ImportRejected)


(***************************************************************************)
(* Classifier runs: the loop body applied to one sample message at a time. *)
(***************************************************************************)
\* a text of trimmed length n between lead and trail white-space characters
Pad(k) == [i \in 1..k |-> IF i % 2 = 1 THEN " " ELSE "\n"]
Body(n) == [i \in 1..n |-> IF i = 2 /\ n > 2 THEN " " ELSE "a"]
TextLens ==
  {0, 1, 2, 3, ThinkingLimit - 1, ThinkingLimit, ThinkingLimit + 1}
TextSamples == [lead : 0..MaxPad, n : TextLens, trail : 0..MaxPad]
TextMsg(d) ==
  AssistantMsg(Content(<<TextBlock(Text(Pad(d.lead) \o Body(d.n) \o Pad(d.trail)))>>))

\* tool invocations
ToolNames == {"WebSearch", "WebFetch", "Bash", "websearch", ""}
ToolInputs ==
  {NoInput} \cup
  {Input(query, q, url) :
     query \in {Undef, Str(""), Str("Inception reviews")},
     q \in {Undef, Str("Memento analysis")},
     url \in {Undef, Str("https://rogerebert.com")}}
ToolMsg(name, input) == AssistantMsg(Content(<<ToolUse(name, input)>>))
\* the same block followed by a search block and a short text block
ToolThenMsg(name, input) ==
  AssistantMsg(Content(<<ToolUse(name, input),
                         ToolUse("WebSearch", Input(Str("Inception reviews"), Undef, Undef)),
                         TextBlock(Text(<<" ", "o", "k", "\n">>))>>))

\* final results
ErrorLists ==
  {NoErrors, [t |-> "null", items |-> <<>>], [t |-> "string", items |-> <<>>],
   [t |-> "object", items |-> <<>>], Errors(<<>>), Errors(<<"timeout">>),
   Errors(<<"timeout", "rate limited">>), Errors(<<"">>), Errors(<<"", "">>),
   Errors(<<"timeout", "rate limited", "max turns">>)}
FinalMsgs ==
  {ResultMsg("success", result, NoErrors) :
     result \in {Undef, Str(""), Str("Try Memento and Primer.")}} \cup
  {ResultMsg("error_max_turns", Undef, errors) : errors \in ErrorLists}

\* the other kinds, and partially shaped messages
OddMsgs ==
  {OtherMsg(FALSE, ""), OtherMsg(TRUE, "system"), OtherMsg(TRUE, "assistant"),
   AssistantMsg([t |-> "number", blocks |-> <<>>]),
   AssistantMsg([t |-> "object", blocks |-> <<>>]),
   AssistantMsg([t |-> "string", blocks |-> <<Block(FALSE, "", "", NoInput, NoText)>>]),
   AssistantMsg(Content(<<>>)),
   AssistantMsg(Content(<<Block(FALSE, "", "", NoInput, NoText),
                          ToolUse("WebFetch", NoInput)>>)),
   AssistantMsg(Content(<<TextBlock(NoText)>>)),
   AssistantMsg(Content(<<TextBlock([t |-> "null", cs |-> <<>>])>>)),
   AssistantMsg(Content(<<TextBlock([t |-> "number", cs |-> <<>>])>>)),
   AssistantMsg(Content(<<Block(TRUE, "image", "", NoInput, NoText)>>)),
   SummaryMsg(Undef), SummaryMsg(Str("")), SummaryMsg(Str("Searched the web")),
   ProgressMsg(Undef, Num("3")), ProgressMsg(Str("WebSearch"), Num("3")),
   ProgressMsg(Str("WebSearch"), Undef)}

ClassifyInputs ==
  {TextMsg(d) : d \in TextSamples} \cup
  {ToolMsg(name, input) : name \in ToolNames, input \in ToolInputs} \cup
  {ToolThenMsg(name, input) : name \in ToolNames, input \in ToolInputs} \cup
  FinalMsgs \cup OddMsgs \cup {RelayMsgs[i] : i \in 1..Len(RelayMsgs)}

InitClassify ==
  /\ RelayInit
  /\ PairInit
  /\ cphase = "input"
  /\ cin \in ClassifyInputs
  /\ cout = Emits(<<>>)

\* the loop body runs on the message
ClassifyStep ==
  /\ cphase = "input"
  /\ cout' = Classify(cin)
  /\ cphase' = "output"
  /\ UNCHANGED <<cin, relayVars, pairVars>>

\* the next message arrives
NextInput ==
  /\ cphase = "output"
  /\ cin' \in ClassifyInputs
  /\ cout' = Emits(<<>>)
  /\ cphase' = "input"
  /\ UNCHANGED <<relayVars, pairVars>>

NextClassify == ClassifyStep \/ NextInput

SpecClassify == InitClassify /\ [][NextClassify]_vars

(***************************************************************************)
(* Concurrent requests.  Express calls the handler once per request; each  *)
(* call has its own res, send and heartbeat in its closure.  The event     *)
(* loop runs one segment of one call at a time, in any order.  What the    *)
(* calls share is the table of active intervals of the event loop.         *)
(***************************************************************************)
\* heartbeats written to each of the concurrent connections
MaxPairTicks == 1

\* a `heartbeat` shared by the calls would name the interval created last
HeartbeatLatest(i) == Len(timerRes)
\* the interval handle named `heartbeat` in request i's closure
HeartbeatOf(i) == rs[i].heartbeat

PWritable(i) == rs[i].connected /\ rs[i].ended = 0

\* send of request i, for each of events: res.write on request i's res
PSend(i, events) ==
  IF PWritable(i)
  THEN rs[i].out \o [k \in 1..Len(events) |-> DataFrame(events[k])]
  ELSE rs[i].out

\* finally of request i, after `events` were sent:
\* clearInterval(heartbeat); res.end()
PFinally(i, events) ==
  /\ rs' = [rs EXCEPT ![i].out = PSend(i, events),
                      ![i].ended = @ + 1,
                      ![i].pc = "done"]
  /\ timers' = timers \ {HeartbeatOf(i)}
  /\ UNCHANGED timerRes

\* catch and finally of request i
PCatch(i, before, message) ==
  PFinally(i, before \o <<ErrorEvent(IF message = "" THEN UnexpectedError
                                                      ELSE message)>>)

\* request i enters the handler: validation, SSE headers, setInterval
PRequest(i, r) ==
  /\ rs[i].pc = "idle"
  /\ IF ~ValidFavorites(r) \/ ~HasKey(r)
     THEN /\ rs' = [rs EXCEPT ![i].pc = "rejected"]
          /\ UNCHANGED <<timers, timerRes>>
     ELSE /\ timerRes' = Append(timerRes, i)
          /\ timers' = timers \cup {Len(timerRes) + 1}
          /\ rs' = [rs EXCEPT ![i].pc = "import",
                              ![i].heartbeat = Len(timerRes) + 1]
  /\ UNCHANGED <<relayVars, classifierVars>>

PImportResolved(i) ==
  /\ rs[i].pc = "import"
  /\ rs' = [rs EXCEPT ![i].out = PSend(i, <<StartEvent>>), ![i].pc = "loop"]
  /\ UNCHANGED <<timers, timerRes, relayVars, classifierVars>>

PImportRejected(i) ==
  /\ rs[i].pc = "import"
  /\ PCatch(i, <<>>, ImportError)
  /\ UNCHANGED <<relayVars, classifierVars>>

\* the messages the concurrent sessions yield: a final result, and an
\* assistant message whose second block makes the loop body throw
PairMsgs == <<RelayMsgs[1], RelayMsgs[4]>>

\* request i's session yields PairMsgs[m]
PUpstreamYield(i, m) ==
  /\ rs[i].pc = "loop"
  /\ rs[i].consumed < MaxPairMsgs
  /\ LET o == Classify(PairMsgs[m])
     IN  IF o.raised
         THEN PCatch(i, o.events, o.message)
         ELSE /\ rs' = [rs EXCEPT ![i].out = PSend(i, o.events),
                                  ![i].consumed = @ + 1]
              /\ UNCHANGED <<timers, timerRes>>
  /\ UNCHANGED <<relayVars, classifierVars>>

PUpstreamEnd(i) ==
  /\ rs[i].pc = "loop"
  /\ PFinally(i, <<DoneEvent>>)
  /\ UNCHANGED <<relayVars, classifierVars>>

PUpstreamRaise(i, e) ==
  /\ rs[i].pc = "loop"
  /\ PCatch(i, <<>>, e)
  /\ UNCHANGED <<relayVars, classifierVars>>

\* the callback of interval h runs: it writes to the res of the request that
\* created it, and clears that request's `heartbeat` when the write throws
PTick(h) ==
  /\ h \in timers
  /\ LET i == timerRes[h]
     IN  IF PWritable(i)
         THEN /\ Heartbeats(rs[i].out) < MaxPairTicks
              /\ rs' = [rs EXCEPT ![i].out = Append(@, HeartbeatFrame)]
              /\ UNCHANGED <<timers, timerRes>>
         ELSE IF writeMode = "throws"
         THEN /\ timers' = timers \ {HeartbeatOf(i)}
              /\ UNCHANGED <<rs, timerRes>>
         ELSE UNCHANGED <<rs, timers, timerRes>>
  /\ UNCHANGED <<relayVars, classifierVars>>

\* the client of request i closes its connection
PDisconnect(i) ==
  /\ rs[i].pc \in {"import", "loop"}
  /\ rs[i].connected
  /\ rs' = [rs EXCEPT ![i].connected = FALSE]
  /\ UNCHANGED <<timers, timerRes, relayVars, classifierVars>>

\* a segment of request i's handler call, or of its client
PHandlerStep(i) ==
  \/ \E r \in Requests : PRequest(i, r)
  \/ PImportResolved(i)
  \/ PImportRejected(i)
  \/ \E m \in 1..Len(PairMsgs) : PUpstreamYield(i, m)
  \/ PUpstreamEnd(i)
  \/ \E e \in RaisedMessages : PUpstreamRaise(i, e)
  \/ PDisconnect(i)

NextPair ==
  \/ \E i \in Reqs : PHandlerStep(i)
  \/ \E h \in 1..Len(timerRes) : PTick(h)

SpecPair == Init /\ [][NextPair]_vars


(***************************************************************************)
(* Properties.                                                             *)
(***************************************************************************)
\* the positions of the result and error events of a sequence of events
Terminals(ev) == {i \in 1..Len(ev) : ev[i].type \in {"result", "error"}}
\* a final result was consumed
SawFinal == \E i \in 1..Len(hist) : IsFinal(RelayMsgs[hist[i]])
\* the event of the catch block for err.message = m
CaughtEvent(m) == ErrorEvent(IF m = "" THEN "An unexpected error occurred" ELSE m)

\* C1: when the handler has finished a streamed request whose client stayed
\* connected, the client events written end with `done`, and `done` occurs
\* exactly once among them.
C1_EndsWithOneDone ==
  (pc = "done" /\ connected) =>
    LET ev == Events(out)
    IN  /\ ev # <<>>
        /\ ev[Len(ev)].type = "done"
        /\ Cardinality({i \in 1..Len(ev) : ev[i].type = "done"}) = 1

\* C2: the client events written never hold two or more result/error events,
\* and a finished request holds none only when the upstream session ended
\* without a final result.
C2_OneTerminalEvent ==
  LET ev == Events(out)
  IN  /\ Cardinality(Terminals(ev)) <= 1
      /\ (pc = "done" /\ connected /\ Terminals(ev) = {}) =>
           (raisedBy = "none" /\ ~SawFinal)

\* C3: when the upstream session throws, the step that handles it appends to
\* the client events already written exactly one error event carrying the
\* thrown message (or the fallback) followed by `done`, finishes the handler
\* and leaves the heartbeat interval cancelled.
C3_RaiseGivesErrorThenDone ==
  [][(pc = "loop" /\ connected /\ raisedBy' = "upstream") =>
       /\ Events(out') = Events(out) \o <<CaughtEvent(raisedMessage'), DoneEvent>>
       /\ pc' = "done"
       /\ ~timerActive']_vars

\* C4: once the handler has reached its end by any path the heartbeat interval
\* is not active, and from then on no frame is written to the connection.
C4_NoHeartbeatAfterTermination ==
  [][/\ pc' = "done" => ~timerActive'
     /\ pc = "done" => out' = out]_vars
C4_Witness ==
  /\ pc = "done"
  /\ timersCreated = 1
  /\ ~timerActive
  /\ Heartbeats(out) > 0
  /\ Len(hist) > 0

\* C5: once the client has disconnected, the heartbeat interval is eventually
\* cancelled, whether or not the upstream session ever yields or ends.
C5_DisconnectCancelsTimer == (~connected) ~> (~timerActive)

\* C6: a request whose favoriteMovies is not an array or is empty gets
\* status 400, a valid one without the API key gets status 500, and in both
\* cases nothing of the stream exists: no headers flushed, no frame written,
\* no interval created, no upstream session opened.
NoStream ==
  /\ pc = "rejected"
  /\ ~headersSent
  /\ out = <<>>
  /\ ~timerActive
  /\ timersCreated = 0
  /\ sessions = 0
C6_RejectedBeforeStreaming ==
  /\ (pc # "idle" /\ (~req.isArray \/ req.len = 0)) => (status = 400 /\ NoStream)
  /\ (pc # "idle" /\ req.isArray /\ req.len > 0 /\ req.key = "undefined") =>
       (status = 500 /\ NoStream)
C6_Witness ==
  /\ pc = "rejected"
  /\ status = 500
  /\ req.isArray
  /\ req.len > 0
  /\ req.key = "undefined"

\* C7: the first frame written to the connection is the `start` event.
C7_StartIsFirstFrame == out # <<>> => out[1] = DataFrame(StartEvent)

\* C8: once a final result has been consumed the handler has finished, and
\* the client events written end with its result/error event followed
\* directly by `done`.
C8_DoneRightAfterFinal ==
  SawFinal =>
    /\ pc = "done"
    /\ connected =>
         LET ev == Events(out)
         IN  /\ Len(ev) >= 2
             /\ ev[Len(ev)].type = "done"
             /\ ev[Len(ev) - 1].type \in {"result", "error"}

\* C9: the loop body never throws, whatever the shape of the message.
C9_ClassifierNeverRaises == raisedBy # "classifier"

\* C10: a text block whose trimmed text has length L gives one thinking
\* event carrying the trimmed text when 0 < L < 500, and no event otherwise.
C10_ThinkingIffShort ==
  \A d \in TextSamples :
    (cphase = "output" /\ cin = TextMsg(d)) =>
      cout = IF d.n > 0 /\ d.n < 500
             THEN Emits(<<ThinkingEvent(Body(d.n))>>)
             ELSE Emits(<<>>)
C10_Witness ==
  /\ cphase = "output"
  /\ cin = TextMsg([lead |-> 1, n |-> 499, trail |-> 2])
  /\ cout.events = <<ThinkingEvent(Body(499))>>


\* C11: a tool_use block whose name is neither WebSearch nor WebFetch gives no
\* event and no throw, and the blocks after it in the same message are
\* classified as usual.
C11_UnknownToolIsSkipped ==
  \A name \in ToolNames \ {"WebSearch", "WebFetch"}, input \in ToolInputs :
    /\ (cphase = "output" /\ cin = ToolMsg(name, input)) => cout = Emits(<<>>)
    /\ (cphase = "output" /\ cin = ToolThenMsg(name, input)) =>
         cout = Emits(<<SearchEvent(Str("Inception reviews")),
                        ThinkingEvent(<<"o", "k">>)>>)
C11_Witness ==
  /\ cphase = "output"
  /\ cin = ToolThenMsg("Bash", Input(Str("Inception reviews"), Undef, Undef))
  /\ Len(cout.events) = 2

\* C12: a WebSearch block gives exactly one search event whose query is the
\* input's query when that is a non-empty string, else its q when that is a
\* non-empty string, else the empty string; a WebFetch block gives exactly
\* one fetch event whose url is the input's url or the empty string.
Present(v) == v.t = "string" /\ v.s # ""
C12_SearchAndFetchFields ==
  \A input \in ToolInputs :
    /\ (cphase = "output" /\ cin = ToolMsg("WebSearch", input)) =>
         cout = Emits(<<SearchEvent(IF Present(input.query) THEN input.query
                                    ELSE IF Present(input.q) THEN input.q
                                    ELSE Str(""))>>)
    /\ (cphase = "output" /\ cin = ToolMsg("WebFetch", input)) =>
         cout = Emits(<<FetchEvent(IF Present(input.url) THEN input.url ELSE Str(""))>>)
C12_Witness ==
  /\ cphase = "output"
  /\ cin = ToolMsg("WebSearch", Input(Str(""), Str("Memento analysis"), Undef))
  /\ cout.events = <<SearchEvent(Str("Memento analysis"))>>

\* the error lists that are a sequence of descriptions, or absent
ErrorSequences == {e \in ErrorLists : e.t \in {"undefined", "null", "array"}}
\* the sample descriptions joined in order by "; "
JoinedText(items) ==
  CASE items = <<>> -> ""
    [] items = <<"">> -> ""
    [] items = <<"", "">> -> "; "
    [] items = <<"timeout">> -> "timeout"
    [] items = <<"timeout", "rate limited">> -> "timeout; rate limited"
    [] items = <<"timeout", "rate limited", "max turns">> ->
         "timeout; rate limited; max turns"
\* a success result gives a result event with the payload as it is
SuccessVerbatim ==
  \A result \in {Str(""), Str("Try Memento and Primer.")} :
    (cphase = "output" /\ cin = ResultMsg("success", result, NoErrors)) =>
      cout = Emits(<<ResultEvent(result)>>)

\* C13 as stated: a failure result gives an error event whose message is the
\* descriptions joined by "; ", or "Research encountered an error" when the
\* sequence is empty or absent; a success result gives a result event with
\* the payload verbatim.
C13_ErrorMessageJoined ==
  /\ SuccessVerbatim
  /\ \A e \in ErrorSequences :
       (cphase = "output" /\ cin = ResultMsg("error_max_turns", Undef, e)) =>
         cout = Emits(<<ErrorEvent(IF e.t # "array" \/ e.items = <<>>
                                   THEN "Research encountered an error"
                                   ELSE JoinedText(e.items))>>)

\* C13 amended: the fallback is used whenever the joined text is empty, which
\* is also the case of a sequence holding one empty description.
C13_ErrorMessageJoinedOrFallback ==
  /\ SuccessVerbatim
  /\ \A e \in ErrorSequences :
       (cphase = "output" /\ cin = ResultMsg("error_max_turns", Undef, e)) =>
         cout = Emits(<<ErrorEvent(IF e.t # "array" \/ JoinedText(e.items) = ""
                                   THEN "Research encountered an error"
                                   ELSE JoinedText(e.items))>>)
C13_Witness ==
  /\ cphase = "output"
  /\ cin = ResultMsg("error_max_turns", Undef, Errors(<<"timeout", "rate limited">>))
  /\ cout.events = <<ErrorEvent("timeout; rate limited")>>

\* C14: a run of the interval callback leaves the client events written and
\* the handler's own state as they were: only heartbeat frames and the
\* interval itself change.
C14_HeartbeatOutOfBand ==
  [][Tick => /\ Events(out') = Events(out)
             /\ UNCHANGED <<pc, status, hist, sessions, endCalls, failedSends,
                            connected, raisedBy, raisedMessage>>]_vars
C14_Witness ==
  \E i, j, k \in 1..Len(out) :
    /\ i < j /\ j < k
    /\ out[i].kind = "data"
    /\ out[j].kind = "heartbeat"
    /\ out[k].kind = "data"
\* a segment that belongs to request i: of its handler call, of its client,
\* or of the callback of an interval it created
PStepOf(i) ==
  \/ PHandlerStep(i)
  \/ \E h \in 1..Len(timerRes) : timerRes[h] = i /\ PTick(h)
\* whether request j's keep-alive timer is active
PTimerActive(j) == rs[j].heartbeat \in timers

\* C15: with requests streaming at once under any interleaving, a step of one
\* request (its handler, its cleanup, its client, its timer) leaves every
\* other request's timer as active as it was, leaves its connection as open
\* as it was, and writes no frame to it.
C15_RequestsIndependent ==
  [][\A i \in Reqs : PStepOf(i) =>
       \A j \in Reqs \ {i} :
         /\ PTimerActive(j)' = PTimerActive(j)
         /\ rs'[j].ended = rs[j].ended
         /\ rs'[j].out = rs[j].out
         /\ rs'[j].pc = rs[j].pc]_vars
\* request 1 has terminated and been cleaned up while request 2, which
\* started after it, is still streaming with its timer active, and has
\* received both data and heartbeat frames
C15_Witness ==
  /\ rs[1].pc = "done" /\ rs[1].ended = 1 /\ ~PTimerActive(1)
  /\ rs[2].pc = "loop" /\ PTimerActive(2)
  /\ rs[2].heartbeat > rs[1].heartbeat /\ rs[1].heartbeat > 0
  /\ Heartbeats(rs[2].out) > 0
  /\ Len(Events(rs[2].out)) > 1
  /\ Len(Events(rs[1].out)) > 1



\* C16: when the upstream session ends and no final result was consumed, the
\* step that handles it appends `done` alone to the client events, which hold
\* no result or error event, cancels the interval, ends the response and
\* finishes the handler.
C16_ExhaustedWritesDoneOnly ==
  [][(pc = "loop" /\ pc' = "done" /\ raisedBy' = "none" /\ ~SawFinal /\ connected) =>
       /\ Events(out') = Events(out) \o <<DoneEvent>>
       /\ Terminals(Events(out')) = {}
       /\ ~timerActive'
       /\ endCalls' = 1]_vars
C16_Witness ==
  /\ pc = "done"
  /\ raisedBy = "none"
  /\ ~SawFinal
  /\ connected
  /\ Len(hist) > 0
  /\ Events(out)[Len(Events(out))] = DoneEvent

\* C17: after the first write of a client event that fails on a closed
\* connection, send makes no further write: at most one write of send fails.
C17_NoWriteAfterFailedWrite == failedSends <= 1

RelayEvents ==
  << <<ResultEvent(Str("Try Memento and Primer."))>>,
     <<ErrorEvent("timeout; rate limited")>>,
     <<SearchEvent(Str("Inception reviews")), ThinkingEvent(<<"o", "k">>)>>,
     <<FetchEvent(Str("https://rogerebert.com"))>>,
     <<>> >>
RECURSIVE Concatenated(_)
Concatenated(h) ==
  IF h = <<>> THEN <<>> ELSE RelayEvents[Head(h)] \o Concatenated(Tail(h))
C19_EventsInClassificationOrder ==
  (connected /\ sessions = 1) =>
    Events(out) =
      <<StartEvent>> \o Concatenated(hist) \o
      (IF pc = "loop" THEN <<>>
       ELSE IF raisedBy = "none" THEN <<DoneEvent>>
       ELSE <<CaughtEvent(raisedMessage)>>)
C19_Witness ==
  /\ pc = "done"
  /\ connected
  /\ hist = <<3, 5, 1>>
  /\ Heartbeats(out) > 0

\* C20: at most one `done` frame has been written, and a `done` frame is the
\* last frame of the connection.
DoneFrames == {i \in 1..Len(out) : out[i].kind = "data" /\ out[i].ev.type = "done"}
C20_DoneIsLastFrame ==
  /\ Cardinality(DoneFrames) <= 1
  /\ \A i \in DoneFrames : i = Len(out)
C20_Witness ==
  /\ pc = "done"
  /\ DoneFrames # {}
  /\ Heartbeats(out) > 0
  /\ SawFinal

=============================================================================
